---- MODULE Spec2Model ----
(***************************************************************************)
(* State-machine model of the scalper engine of src/src/main.rs: the tick  *)
(* -> candle aggregation, the SQLite candle table and trade ledger, the    *)
(* indicator recomputation, the Idle / InPosition position machine, the    *)
(* shared dashboard snapshot behind its RwLock, and the ctrl-c handler.    *)
(*                                                                         *)
(* Numbers.  Prices are integers.  Every other f64 the engine derives      *)
(* (quantity, profit, P&L, rsi, bands) is an exact fraction                *)
(* [num, den] in lowest terms, so that sums and comparisons are the        *)
(* mathematical ones.  The two accumulators of the `ta` crate are          *)
(* evaluated in fixed point (see EmaScale, BandScale) and their results    *)
(* are turned into fractions.                                              *)
(*                                                                         *)
(* Granularity.  One action per critical section of the snapshot lock and  *)
(* per suspension point of bot_logic; store calls, which no other task     *)
(* reads, are folded into the step that makes them.                        *)
(***************************************************************************)
EXTENDS Integers, Sequences, FiniteSets, TLC

\* ------------------------------------------------------------ constants
TRADE_CAPITAL == 10000
RSI_BUY == 30
RSI_SELL == 70
RSI_DEEP == 20
\* TRAILING_STOP_PCT = 0.005, kept as parts per thousand
TRAILING_STOP_PERMILLE == 5
CANDLE_MS == 60000
PRUNE_EVERY_MS == 300000
WALLET_EVERY_MS == 60000
PRUNE_AGE_MS == 3600000
SLEEP_MS == 5000
LOG_CAP == 30
CANDLE_LIMIT == 50
BB_PERIOD == 20
BB_MULT == 2
RSI_PERIOD == 14
SIM_WALLET_USDT == 10500
SIMULATION_MODE == TRUE

\* ------------------------------------------------------------ bounds
\* loop iterations of bot_logic that a behaviour may run
MaxCycles == 3
\* failed calls (store, fetch, order) that a behaviour may contain
MaxFaults == 1
\* add_log calls that a behaviour of LogSpec may make, and how many of the
\* first of them may differ in their text
MaxLogCalls == 32
MaxVaried == 6

\* the wall clock at process start: minute 62, so that candles more than
\* one hour old have a positive bucket
StartNow == 62 * CANDLE_MS
\* prices the exchange may report
Prices == {197, 200, 201}
\* time that may pass from one loop iteration to the next (sleep of 5 s plus
\* whatever the fetches and the scheduler add)
SleepSteps == {SLEEP_MS, PRUNE_EVERY_MS}

\* ------------------------------------------------------------ arithmetic
Abs(x) == IF x < 0 THEN -x ELSE x
Max(a, b) == IF a > b THEN a ELSE b
Min(a, b) == IF a < b THEN a ELSE b

RECURSIVE Gcd(_, _)
Gcd(a, b) == IF b = 0 THEN a ELSE Gcd(b, a % b)

\* the fraction n/d (d # 0) in lowest terms with a positive denominator
Rat(n, d) ==
    LET g == Gcd(Abs(n), Abs(d))
        s == IF d < 0 THEN -1 ELSE 1
    IN  [num |-> s * (n \div g), den |-> s * (d \div g)]

Zero == [num |-> 0, den |-> 1]
FromInt(i) == [num |-> i, den |-> 1]
RAdd(x, y) == Rat(x.num * y.den + y.num * x.den, x.den * y.den)
RMulInt(x, i) == Rat(x.num * i, x.den)
RLt(x, y) == x.num * y.den < y.num * x.den
RLe(x, y) == x.num * y.den <= y.num * x.den
RPos(x) == x.num > 0

RECURSIVE SumSeq(_)
SumSeq(s) == IF s = <<>> THEN 0 ELSE Head(s) + SumSeq(Tail(s))

RECURSIVE RSumSeq(_)
RSumSeq(s) == IF s = <<>> THEN Zero ELSE RAdd(Head(s), RSumSeq(Tail(s)))

Reverse(s) == [i \in 1..Len(s) |-> s[Len(s) + 1 - i]]

\* floor of the square root, by bisection on lo <= r < hi
RECURSIVE SqrtBetween(_, _, _)
SqrtBetween(x, lo, hi) ==
    IF hi - lo <= 1 THEN lo
    ELSE LET mid == (lo + hi) \div 2
         IN  IF mid * mid <= x THEN SqrtBetween(x, mid, hi)
             ELSE SqrtBetween(x, lo, mid)
ISqrt(x) == SqrtBetween(x, 0, 46340)

\* ------------------------------------------------------------ indicators
\* The accumulators of the `ta` crate that bot_logic feeds with the closes of
\* the window, oldest first.  Exponential averages are carried in units of
\* 1/EmaScale, bands in units of 1/BandScale, both rounded down.
EmaScale == 100 * 1000
BandScale == 10 * 10

\* ExponentialMovingAverage::next after its first value: k = 2 / (period + 1)
EmaNext(period, ema, x) == (2 * x + (period - 1) * ema) \div (period + 1)

\* RelativeStrengthIndex::next over cl[i..]: the first close seeds both
\* averages with 0.1, every later close feeds its rise or its fall
RECURSIVE RsiRun(_, _, _, _, _)
RsiRun(cl, i, prev, up, dn) ==
    IF i > Len(cl) THEN [up |-> up, dn |-> dn]
    ELSE LET u == IF cl[i] > prev THEN (cl[i] - prev) * EmaScale ELSE 0
             d == IF cl[i] > prev THEN 0 ELSE (prev - cl[i]) * EmaScale
         IN  RsiRun(cl, i + 1, cl[i],
                    EmaNext(RSI_PERIOD, up, u), EmaNext(RSI_PERIOD, dn, d))

\* cur_rsi after the loop over the window; 0.0 when the window is empty
RsiOf(cl) ==
    IF cl = <<>> THEN Zero
    ELSE LET seed == EmaScale \div 10
             r == RsiRun(cl, 2, cl[1], seed, seed)
         IN  Rat(100 * r.up, r.up + r.dn)

\* cur_bb_low / cur_bb_high after the loop: mean -/+ BB_MULT population
\* standard deviations of the last BB_PERIOD closes; 0.0 for an empty window
BandsOf(cl) ==
    IF cl = <<>> THEN [lower |-> Zero, upper |-> Zero]
    ELSE LET n == Min(Len(cl), BB_PERIOD)
             w == SubSeq(cl, Len(cl) - n + 1, Len(cl))
             d == [i \in 1..n |-> w[i] - w[1]]
             s1 == SumSeq(d)
             s2 == SumSeq([i \in 1..n |-> d[i] * d[i]])
             meanX == BandScale * w[1] + ((BandScale * s1) \div n)
             sdX == ISqrt((BandScale * BandScale * (n * s2 - s1 * s1)) \div (n * n))
         IN  [lower |-> Rat(meanX - BB_MULT * sdX, BandScale),
              upper |-> Rat(meanX + BB_MULT * sdX, BandScale)]

\* ------------------------------------------------------------ the store
\* table candles: the set of its rows
\* table trades: the sequence of rows in id order

CandleOfRow(r) ==
    [open |-> r.open, high |-> r.high, low |-> r.low, close |-> r.close, time |-> r.time]

\* the row that save_candle binds to its statement
CandleRow(candle, rsi, bb_lower, bb_upper) ==
    [time |-> candle.time, open |-> candle.open, high |-> candle.high,
     low |-> candle.low, close |-> candle.close,
     rsi |-> rsi, bb_lower |-> bb_lower, bb_upper |-> bb_upper]

\* mutant: a plain INSERT into a table without a key
SaveCandle_Insert(tbl, candle, rsi, bb_lower, bb_upper) ==
    tbl \cup {CandleRow(candle, rsi, bb_lower, bb_upper)}

\* INSERT OR REPLACE INTO candles, `time` being the primary key: the row
\* with the same time, if any, is deleted and the new row is inserted
SaveCandle(tbl, candle, rsi, bb_lower, bb_upper) ==
    {r \in tbl : r.time # candle.time} \cup {CandleRow(candle, rsi, bb_lower, bb_upper)}

\* ORDER BY time DESC
RECURSIVE DescRows(_)
DescRows(S) ==
    IF S = {} THEN <<>>
    ELSE LET m == CHOOSE x \in S : \A y \in S : y.time <= x.time
         IN  <<m>> \o DescRows(S \ {m})

\* mutant: the rows are returned as selected, newest first
GetRecentCandles_NoReverse(tbl, limit) ==
    LET rs == DescRows(tbl)
        n == Min(limit, Len(rs))
    IN  [i \in 1..n |-> CandleOfRow(rs[i])]

\* SELECT ... ORDER BY time DESC LIMIT ?1, then candles.reverse()
GetRecentCandles(tbl, limit) ==
    LET rs == DescRows(tbl)
        n == Min(limit, Len(rs))
    IN  Reverse([i \in 1..n |-> CandleOfRow(rs[i])])

\* mutant: the row replaces the ledger instead of being appended
LogTrade_Replace(tr, action, price, qty, profit, ts) ==
    <<[action |-> action, price |-> price, quantity |-> qty,
       profit |-> profit, timestamp |-> ts]>>

\* INSERT INTO trades
LogTrade(tr, action, price, qty, profit, ts) ==
    Append(tr, [action |-> action, price |-> price, quantity |-> qty,
                profit |-> profit, timestamp |-> ts])

\* mutant: the DELETE has no WHERE clause
PruneOldData_All(tbl, nowv) == {}

\* DELETE FROM candles WHERE time < now - 1 h
PruneOldData(tbl, nowv) == {r \in tbl : ~(r.time < nowv - PRUNE_AGE_MS)}

\* ------------------------------------------------------------ snapshot log
\* mutant: the list is never shortened
AddLog_NoCap(logs, ts, msg) == <<[time |-> ts, msg |-> msg]>> \o logs

AddLog(logs, ts, msg) ==
    LET l == <<[time |-> ts, msg |-> msg]>> \o logs
    IN  IF Len(l) > LOG_CAP THEN SubSeq(l, 1, Len(l) - 1) ELSE l

\* ------------------------------------------------------------ orders
\* execute_trade: in simulation mode the order is only written to the ledger,
\* with profit 0.0; otherwise it is posted to the exchange and the ledger is
\* not touched
ExecuteTrade(tr, side, price, qty, ok, ts) ==
    IF SIMULATION_MODE
    THEN IF ok THEN LogTrade(tr, side, price, qty, Zero, ts) ELSE tr
    ELSE tr

\* ------------------------------------------------------------ decisions
\* mutant: the deep-oversold disjunct is missing
BuySignal_BandOnly(rsi, price, bb_low) ==
    RLt(rsi, FromInt(RSI_BUY)) /\ RLt(FromInt(price), bb_low)

\* line 388
BuySignal(rsi, price, bb_low) ==
    \/ RLt(rsi, FromInt(RSI_BUY)) /\ RLt(FromInt(price), bb_low)
    \/ RLt(rsi, FromInt(RSI_DEEP))

\* mutant: the division is the wrong way round
Quantity_Inverse(price) == Rat(price, TRADE_CAPITAL)

\* line 389
Quantity(price) == Rat(TRADE_CAPITAL, price)

\* mutant: the high is overwritten with every price
Highest_Last(highest_price, price) == price

\* line 404
Highest(highest_price, price) == IF price > highest_price THEN price ELSE highest_price

\* lines 405 and 408: price < highest_price * (1.0 - TRAILING_STOP_PCT)
StopHit(price, highest_price) ==
    price * 1000 < highest_price * (1000 - TRAILING_STOP_PERMILLE)

\* line 419
Overbought(rsi) == RLt(FromInt(RSI_SELL), rsi)

\* mutant: the overbought exit is missing
ExitReason_StopOnly(price, highest_price, rsi) ==
    IF StopHit(price, highest_price) THEN "STOP LOSS" ELSE "none"

\* mutant: the overbought exit is tested before the trailing stop
ExitReason_ProfitFirst(price, highest_price, rsi) ==
    IF Overbought(rsi) THEN "PROFIT TAKE"
    ELSE IF StopHit(price, highest_price) THEN "STOP LOSS"
    ELSE "none"

\* lines 408 and 419: which exit, if any, this cycle takes
ExitReason(price, highest_price, rsi) ==
    IF StopHit(price, highest_price) THEN "STOP LOSS"
    ELSE IF Overbought(rsi) THEN "PROFIT TAKE"
    ELSE "none"

\* lines 386-434: the transition a cycle takes from position bs
Transition(bs, price, rsi, bb_low) ==
    IF bs.tag = "Idle"
    THEN IF BuySignal(rsi, price, bb_low) THEN "BUY SIGNAL" ELSE "none"
    ELSE ExitReason(price, Highest(bs.highest_price, price), rsi)

\* line 406
ProfitAmt(price, entry_price, quantity) == RMulInt(quantity, price - entry_price)

\* lines 379-380
UnrealizedPl(price, entry_price) == Rat((price - entry_price) * 100, entry_price)

\* ------------------------------------------------------------ snapshot writes
\* each operator is one critical section of the snapshot's write lock

\* mutant: the critical section of the tick writes the price only
PublishTick_PriceOnly(d, price, rsi, bb_low, bb_high, bs) ==
    [d EXCEPT !.price = price,
              !.unrealized_pl = IF bs.tag = "InPosition"
                                THEN UnrealizedPl(price, bs.entry_price)
                                ELSE Zero]

\* lines 372-384
PublishTick(d, price, rsi, bb_low, bb_high, bs) ==
    [d EXCEPT !.price = price, !.rsi = rsi, !.bb_lower = bb_low, !.bb_upper = bb_high,
              !.unrealized_pl = IF bs.tag = "InPosition"
                                THEN UnrealizedPl(price, bs.entry_price)
                                ELSE Zero]

\* mutant: the buy publishes the status but not the entry price
PublishBuy_NoEntry(d, price) == [d EXCEPT !.status = "IN POSITION"]

\* lines 392-396
PublishBuy(d, price) == [d EXCEPT !.status = "IN POSITION", !.entry_price = price]

\* mutant: the profit is booked twice
PublishExit_Twice(d, profit_amt) ==
    [d EXCEPT !.status = "IDLE", !.entry_price = 0,
              !.realized_pl = RAdd(RAdd(d.realized_pl, profit_amt), profit_amt)]

\* mutant: the exit does not reset the entry price
PublishExit_KeepsEntry(d, profit_amt) ==
    [d EXCEPT !.status = "IDLE", !.realized_pl = RAdd(d.realized_pl, profit_amt)]

\* lines 411-416 and 422-427
PublishExit(d, profit_amt) ==
    [d EXCEPT !.status = "IDLE", !.entry_price = 0,
              !.realized_pl = RAdd(d.realized_pl, profit_amt)]

\* lines 400 and 431
PublishStatus(d, status) == [d EXCEPT !.status = status]

\* lines 238-243
PublishWallet(d) ==
    [d EXCEPT !.wallet_usdt = SIM_WALLET_USDT, !.wallet_btc = Rat(5, 100)]

\* add_log on the snapshot
Logged(d, ts, msg) == [d EXCEPT !.logs = AddLog(d.logs, ts, msg)]

\* ------------------------------------------------------------ position values
Idle == [tag |-> "Idle"]

\* line 398
Opened(price, qty) ==
    [tag |-> "InPosition", entry_price |-> price, highest_price |-> price, quantity |-> qty]

\* mutant: holding at a new high moves the entry to that high
Held_Rebased(bs, highest_price) ==
    [tag |-> "InPosition", entry_price |-> highest_price,
     highest_price |-> highest_price, quantity |-> bs.quantity]

\* line 432
Held(bs, highest_price) ==
    [tag |-> "InPosition", entry_price |-> bs.entry_price,
     highest_price |-> highest_price, quantity |-> bs.quantity]

\* ------------------------------------------------------------ aggregation
\* mutant: buckets of one second
Bucket_Second(now_ts) == (now_ts \div 1000) * 1000

\* line 344
Bucket(now_ts) == (now_ts \div CANDLE_MS) * CANDLE_MS

\* mutant: the low of a candle is never lowered
Aggregate_NoLow(candle, price, candle_start_ts) ==
    IF candle.time # candle_start_ts
    THEN [open |-> price, high |-> price, low |-> price, close |-> price,
          time |-> candle_start_ts]
    ELSE [candle EXCEPT !.close = price,
                        !.high = IF price > candle.high THEN price ELSE candle.high]

\* mutant: a candle once started takes every later tick, whatever its bucket
Aggregate_NoRoll(candle, price, candle_start_ts) ==
    IF candle.time = 0
    THEN [open |-> price, high |-> price, low |-> price, close |-> price,
          time |-> candle_start_ts]
    ELSE [candle EXCEPT !.close = price,
                        !.high = IF price > candle.high THEN price ELSE candle.high,
                        !.low = IF price < candle.low THEN price ELSE candle.low]

\* lines 346-352
Aggregate(candle, price, candle_start_ts) ==
    IF candle.time # candle_start_ts
    THEN [open |-> price, high |-> price, low |-> price, close |-> price,
          time |-> candle_start_ts]
    ELSE [candle EXCEPT !.close = price,
                        !.high = IF price > candle.high THEN price ELSE candle.high,
                        !.low = IF price < candle.low THEN price ELSE candle.low]

Closes(history) == [i \in 1..Len(history) |-> history[i].close]

\* ------------------------------------------------------------ inputs
Flat(t, p) == [open |-> p, high |-> p, low |-> p, close |-> p, time |-> t]

\* what GET /market_data/candles may answer, newest candle first
HistoryFeeds ==
    { <<>>,
      <<Flat(StartNow - CANDLE_MS, 200)>>,
      <<Flat(StartNow - CANDLE_MS, 190), Flat(CANDLE_MS, 190)>> }

\* what bot_data.db may hold when the process starts: nothing, or the rows an
\* earlier run of the program left behind
PriorStores ==
    { [candles |-> {}, trades |-> <<>>],
      [candles |-> SaveCandle({}, Flat(CANDLE_MS, 200), FromInt(50),
                              FromInt(200), FromInt(200)),
       trades |-> LogTrade(<<>>, "buy", 200, Quantity(200), Zero, CANDLE_MS)] }

\* ------------------------------------------------------------ state
VARIABLES
    now,             \* the wall clock, ms
    pc,              \* where bot_logic is
    bot_state,       \* BotState of bot_logic
    last_prune,      \* bot_logic locals
    last_wallet,
    current_candle,
    loc,             \* locals of the loop body: price, cur_rsi, cur_bb_low, cur_bb_high
    candles,         \* table candles of bot_data.db
    trades,          \* table trades of bot_data.db
    data,            \* DashboardData behind the RwLock
    sd,              \* the ctrl-c task: where it is and what it read
    orders,          \* history: every execute_trade call
    closed,          \* history: every position the engine closed
    cycles,          \* history: loop iterations started
    faults,          \* history: failed calls so far
    ticks,           \* history: per cycle with a price: the time, the price, the
                     \* closes of the window read, all closes read so far, and
                     \* the indicator values computed
    saved,           \* history: per candle time, the row of the last save that worked
    cyc,             \* history: the loop iteration under way, as it began
    wguard,          \* whether bot_logic holds the write guard of the snapshot
    said             \* history: every message given to add_log, oldest first

vars == <<now, pc, bot_state, last_prune, last_wallet, current_candle, loc,
          candles, trades, data, sd, orders, closed, cycles, faults,
          ticks, saved, cyc, wguard, said>>

\* rows, wfail: the ledger rows the exit has written and whether a write of it
\* failed; sfail, rfail, ufail: whether the save of line 354, the read of line
\* 356 and the save of line 370 failed; want: the transition of this cycle
\* had every store call succeeded
NoLoc == [price |-> 0, rsi |-> Zero, bb_low |-> Zero, bb_high |-> Zero, rows |-> <<>>,
          wfail |-> FALSE, sfail |-> FALSE, rfail |-> FALSE, ufail |-> FALSE,
          want |-> "none"]

\* no iteration under way
NoCycle == [skipped |-> FALSE, pruned |-> FALSE, top |-> {}]

\* what an iteration starts from
CycleTop ==
    [current_candle |-> current_candle, candles |-> candles, trades |-> trades,
     bot_state |-> bot_state, data |-> data, orders |-> Len(orders)]

\* the row of a save that worked, recorded under its time
Put(f, row) ==
    [k \in DOMAIN f \cup {row.time} |-> IF k = row.time THEN row ELSE f[k]]

\* main, lines 559-563, and the locals of bot_logic, lines 323-327
Init ==
    /\ now = StartNow
    /\ pc = "init"
    /\ bot_state = Idle
    /\ last_prune = StartNow
    /\ last_wallet = StartNow
    /\ current_candle = [open |-> 0, high |-> 0, low |-> 0, close |-> 0, time |-> 0]
    /\ loc = NoLoc
    /\ \E st \in PriorStores : candles = st.candles /\ trades = st.trades
    /\ data = [price |-> 0, rsi |-> Zero, bb_lower |-> Zero, bb_upper |-> Zero,
               status |-> "Starting...", entry_price |-> 0, unrealized_pl |-> Zero,
               realized_pl |-> Zero, wallet_usdt |-> 0, wallet_btc |-> Zero,
               logs |-> <<>>]
    /\ sd = [pc |-> "waiting", in_pos |-> FALSE, price |-> 0]
    /\ orders = <<>>
    /\ closed = <<>>
    /\ cycles = 0
    /\ faults = 0
    /\ ticks = <<>>
    /\ saved = <<>>
    /\ cyc = NoCycle
    /\ wguard = FALSE
    /\ said = <<>>

Running == sd.pc # "exited"
\* a call may fail only while the behaviour has failures left
MayFail(ok) == ok \/ faults < MaxFaults
Cost(ok) == IF ok THEN 0 ELSE 1

\* ------------------------------------------------------------ start-up
\* DbManager::init, line 307: both tables are dropped and created again; an
\* error (ignored by the caller) leaves the file as it was
InitStore(db, ok) == IF ok THEN [candles |-> {}, trades |-> <<>>] ELSE db

DbInit ==
    /\ Running /\ pc = "init"
    /\ \E ok \in BOOLEAN :
          /\ MayFail(ok)
          /\ LET db == InitStore([candles |-> candles, trades |-> trades], ok)
             IN  candles' = db.candles /\ trades' = db.trades
          /\ faults' = faults + Cost(ok)
    /\ pc' = "history"
    /\ UNCHANGED <<now, bot_state, last_prune, last_wallet, current_candle, loc,
                   data, sd, orders, closed, cycles,
                   ticks, saved, cyc, wguard, said>>

\* lines 310-317: the candles of the feed, oldest first, each saved with the
\* indicator values of the closes up to it; oks[i] tells whether save i works
RECURSIVE SyncRows(_, _, _, _)
SyncRows(tbl, hist, i, oks) ==
    IF i > Len(hist) THEN tbl
    ELSE LET cl == [k \in 1..i |-> hist[k].close]
             b == BandsOf(cl)
         IN  SyncRows(IF oks[i]
                      THEN SaveCandle(tbl, hist[i], RsiOf(cl), b.lower, b.upper)
                      ELSE tbl,
                      hist, i + 1, oks)

\* the saves of SyncRows that worked
RECURSIVE SyncSaved(_, _, _, _)
SyncSaved(f, hist, i, oks) ==
    IF i > Len(hist) THEN f
    ELSE LET cl == [k \in 1..i |-> hist[k].close]
             b == BandsOf(cl)
         IN  SyncSaved(IF oks[i]
                       THEN Put(f, CandleRow(hist[i], RsiOf(cl), b.lower, b.upper))
                       ELSE f,
                       hist, i + 1, oks)

Failures(oks) == Cardinality({i \in DOMAIN oks : ~oks[i]})

\* lines 308-319: the history answer arrives
HistorySynced ==
    /\ Running /\ pc = "history"
    /\ \E feed \in HistoryFeeds : \E oks \in [1..Len(feed) -> BOOLEAN] :
          /\ faults + Failures(oks) <= MaxFaults
          /\ candles' = SyncRows(candles, Reverse(feed), 1, oks)
          /\ saved' = SyncSaved(saved, Reverse(feed), 1, oks)
          /\ data' = Logged(data, now, [text |-> "Synced candles to DB", arg |-> Len(feed)])
          /\ said' = Append(said, [time |-> now,
                                   msg |-> [text |-> "Synced candles to DB", arg |-> Len(feed)]])
          /\ faults' = faults + Failures(oks)
    /\ pc' = "loop"
    /\ last_prune' = now /\ last_wallet' = now
    /\ wguard' = FALSE
    /\ UNCHANGED <<now, bot_state, current_candle, loc, trades, sd, orders, closed, cycles,
                   ticks, cyc>>

\* line 320: the history request fails; only stderr is written
HistoryFailed ==
    /\ Running /\ pc = "history"
    /\ faults < MaxFaults
    /\ faults' = faults + 1
    /\ pc' = "loop"
    /\ last_prune' = now /\ last_wallet' = now
    /\ UNCHANGED <<now, bot_state, current_candle, loc, candles, trades, data, sd,
                   orders, closed, cycles,
                   ticks, saved, cyc, wguard, said>>

\* ------------------------------------------------------------ the loop
\* mutant: the prune is due already when the interval has just elapsed
PruneDue_AtLeast(nowv, last) == nowv - last >= PRUNE_EVERY_MS

\* line 330
PruneDue(nowv, last) == nowv - last > PRUNE_EVERY_MS
\* line 336
WalletDue(nowv, last) == nowv - last > WALLET_EVERY_MS

\* lines 330-339: the two timed side activities at the head of an iteration;
\* both elapsed() calls answer Ok, the clock being no earlier than last_prune
\* and last_wallet
LoopTop ==
    /\ Running /\ pc = "loop"
    /\ cycles < MaxCycles
    /\ now >= last_prune /\ now >= last_wallet
    /\ cycles' = cycles + 1
    /\ LET pd == PruneDue(now, last_prune)
           wd == WalletDue(now, last_wallet)
       IN  /\ \E ok \in BOOLEAN :
                /\ MayFail(ok)
                /\ ~pd => ok
                /\ candles' = IF pd /\ ok THEN PruneOldData(candles, now) ELSE candles
                /\ faults' = faults + Cost(ok)
           /\ LET d1 == IF pd THEN Logged(data, now, [text |-> "Pruned old DB data", arg |-> 0])
                        ELSE data
              IN  data' = IF wd THEN PublishWallet(d1) ELSE d1
           /\ last_prune' = IF pd THEN now ELSE last_prune
           /\ last_wallet' = IF wd THEN now ELSE last_wallet
           /\ said' = IF pd
                      THEN Append(said, [time |-> now,
                                         msg |-> [text |-> "Pruned old DB data", arg |-> 0]])
                      ELSE said
           /\ cyc' = [skipped |-> FALSE, pruned |-> pd, top |-> {CycleTop}]
    /\ pc' = "fetch"
    /\ wguard' = FALSE
    /\ UNCHANGED <<now, bot_state, current_candle, loc, trades, sd, orders, closed,
                   ticks, saved>>

\* mutant: the two indicator objects outlive the cycle and are fed the window
\* of every cycle in turn
Indicators_Carried(history) ==
    LET before == IF ticks = <<>> THEN <<>> ELSE ticks[Len(ticks)].fed
        fed == before \o Closes(history)
    IN  [rsi |-> RsiOf(fed), bb_low |-> BandsOf(fed).lower, bb_high |-> BandsOf(fed).upper]

\* lines 357-368: a new BollingerBands and a new RelativeStrengthIndex are
\* fed the closes of the window, oldest first
Indicators(history) ==
    LET fed == Closes(history)
    IN  [rsi |-> RsiOf(fed), bb_low |-> BandsOf(fed).lower, bb_high |-> BandsOf(fed).upper]

\* lines 341-384: a price arrives; aggregate, save, read the window, recompute
\* the indicators, save again, publish price and indicators
TickOk ==
    /\ Running /\ pc = "fetch"
    /\ \E price \in Prices : \E ok1, okr, ok2 \in BOOLEAN :
          LET nfail == Cost(ok1) + Cost(okr) + Cost(ok2)
              cc == Aggregate(current_candle, price, Bucket(now))
              t1 == IF ok1 THEN SaveCandle(candles, cc, Zero, Zero, Zero) ELSE candles
              history == IF okr THEN GetRecentCandles(t1, CANDLE_LIMIT) ELSE <<>>
              ind == Indicators(history)
              cur_rsi == ind.rsi
              bb == [lower |-> ind.bb_low, upper |-> ind.bb_high]
              sound == Closes(GetRecentCandles(SaveCandle(candles, cc, Zero, Zero, Zero),
                                               CANDLE_LIMIT))
              s1 == IF ok1 THEN Put(saved, CandleRow(cc, Zero, Zero, Zero)) ELSE saved
          IN  /\ faults + nfail <= MaxFaults
              /\ faults' = faults + nfail
              /\ current_candle' = cc
              /\ candles' = IF ok2 THEN SaveCandle(t1, cc, cur_rsi, bb.lower, bb.upper) ELSE t1
              /\ data' = PublishTick(data, price, cur_rsi, bb.lower, bb.upper, bot_state)
              /\ loc' = [NoLoc EXCEPT !.price = price, !.rsi = cur_rsi,
                                      !.bb_low = bb.lower, !.bb_high = bb.upper,
                                      !.sfail = ~ok1, !.rfail = ~okr, !.ufail = ~ok2,
                                      !.want = Transition(bot_state, price, RsiOf(sound),
                                                          BandsOf(sound).lower)]
              /\ ticks' = Append(ticks,
                    [at |-> now, price |-> price, closes |-> Closes(history),
                     fed |-> (IF ticks = <<>> THEN <<>> ELSE ticks[Len(ticks)].fed)
                                \o Closes(history),
                     rsi |-> cur_rsi, bb_lower |-> bb.lower, bb_upper |-> bb.upper])
              /\ saved' = IF ok2 THEN Put(s1, CandleRow(cc, cur_rsi, bb.lower, bb.upper))
                          ELSE s1
    /\ cyc' = NoCycle
    /\ pc' = "decide"
    /\ wguard' = FALSE
    /\ UNCHANGED <<now, bot_state, last_prune, last_wallet, trades, sd, orders, closed, cycles, said>>

\* mutant: a cycle without a price publishes a status
TickMissing_Scans ==
    /\ Running /\ pc = "fetch"
    /\ faults < MaxFaults
    /\ faults' = faults + 1
    /\ pc' = "sleep"
    /\ cyc' = [cyc EXCEPT !.skipped = TRUE]
    /\ data' = PublishStatus(data, "IDLE (Scanning)")
    /\ wguard' = FALSE
    /\ UNCHANGED <<now, bot_state, last_prune, last_wallet, current_candle, loc,
                   candles, trades, sd, orders, closed, cycles,
                   ticks, saved, said>>

\* lines 437-438: no trade in the answer, or the request fails; only stderr
TickMissing ==
    /\ Running /\ pc = "fetch"
    /\ faults < MaxFaults
    /\ faults' = faults + 1
    /\ pc' = "sleep"
    /\ cyc' = [cyc EXCEPT !.skipped = TRUE]
    /\ UNCHANGED <<now, bot_state, last_prune, last_wallet, current_candle, loc,
                   candles, trades, data, sd, orders, closed, cycles,
                   ticks, saved, wguard, said>>

\* line 440
Sleep ==
    /\ Running /\ pc = "sleep"
    /\ cycles < MaxCycles
    /\ \E dt \in SleepSteps : now' = now + dt
    /\ pc' = "loop"
    /\ cyc' = NoCycle
    /\ UNCHANGED <<bot_state, last_prune, last_wallet, current_candle, loc,
                   candles, trades, data, sd, orders, closed, cycles, faults,
                   ticks, saved, wguard, said>>

\* ------------------------------------------------------------ Idle
\* lines 388-390: the buy condition holds; the signal is logged
BuySignalled ==
    /\ Running /\ pc = "decide" /\ bot_state.tag = "Idle"
    /\ BuySignal(loc.rsi, loc.price, loc.bb_low)
    /\ data' = Logged(data, now, [text |-> "BUY SIGNAL", arg |-> loc.price])
    /\ said' = Append(said, [time |-> now, msg |-> [text |-> "BUY SIGNAL", arg |-> loc.price]])
    /\ pc' = "buy_publish"
    /\ wguard' = FALSE
    /\ UNCHANGED <<now, bot_state, last_prune, last_wallet, current_candle, loc,
                   candles, trades, sd, orders, closed, cycles, faults,
                   ticks, saved, cyc>>

\* mutant: the write guard of the buy is still held when the order is sent
BuyPublished_KeepsGuard ==
    /\ Running /\ pc = "buy_publish"
    /\ data' = PublishBuy(data, loc.price)
    /\ pc' = "buy_order"
    /\ wguard' = TRUE
    /\ UNCHANGED <<now, bot_state, last_prune, last_wallet, current_candle, loc,
                   candles, trades, sd, orders, closed, cycles, faults,
                   ticks, saved, cyc, said>>

\* lines 392-396
BuyPublished ==
    /\ Running /\ pc = "buy_publish"
    /\ data' = PublishBuy(data, loc.price)
    /\ pc' = "buy_order"
    /\ wguard' = FALSE
    /\ UNCHANGED <<now, bot_state, last_prune, last_wallet, current_candle, loc,
                   candles, trades, sd, orders, closed, cycles, faults,
                   ticks, saved, cyc, said>>

\* mutant: a buy whose order fails is rolled back
BuyOrdered_RollsBack ==
    /\ Running /\ pc = "buy_order"
    /\ LET qty == Quantity(loc.price)
       IN  /\ \E ok \in BOOLEAN :
                /\ MayFail(ok)
                /\ faults' = faults + Cost(ok)
                /\ bot_state' = IF ok THEN Opened(loc.price, qty) ELSE Idle
                /\ trades' = ExecuteTrade(trades, "buy", loc.price, qty, ok, now)
                /\ orders' = Append(orders,
                      [by |-> "engine", side |-> "buy", price |-> loc.price, qty |-> qty,
                       from |-> bot_state.tag, profit |-> Zero,
                       rows |-> SubSeq(trades', Len(trades) + 1, Len(trades')),
                       wfail |-> ~ok])
    /\ pc' = "sleep"
    /\ loc' = NoLoc
    /\ UNCHANGED <<now, last_prune, last_wallet, current_candle, candles, data, sd,
                   closed, cycles,
                   ticks, saved, cyc, wguard, said>>

\* lines 397-398: the order is executed, then the position is taken
BuyOrdered ==
    /\ Running /\ pc = "buy_order"
    /\ LET qty == Quantity(loc.price)
       IN  /\ \E ok \in BOOLEAN :
                /\ MayFail(ok)
                /\ faults' = faults + Cost(ok)
                /\ trades' = ExecuteTrade(trades, "buy", loc.price, qty, ok, now)
                /\ orders' = Append(orders,
                      [by |-> "engine", side |-> "buy", price |-> loc.price, qty |-> qty,
                       from |-> bot_state.tag, profit |-> Zero,
                       rows |-> SubSeq(trades', Len(trades) + 1, Len(trades')),
                       wfail |-> ~ok])
           /\ bot_state' = Opened(loc.price, qty)
    /\ pc' = "sleep"
    /\ loc' = NoLoc
    /\ UNCHANGED <<now, last_prune, last_wallet, current_candle, candles, data, sd,
                   closed, cycles,
                   ticks, saved, cyc, wguard, said>>

\* line 400
IdleScanned ==
    /\ Running /\ pc = "decide" /\ bot_state.tag = "Idle"
    /\ ~BuySignal(loc.rsi, loc.price, loc.bb_low)
    /\ data' = PublishStatus(data, "IDLE (Scanning)")
    /\ pc' = "sleep"
    /\ loc' = NoLoc
    /\ wguard' = FALSE
    /\ UNCHANGED <<now, bot_state, last_prune, last_wallet, current_candle,
                   candles, trades, sd, orders, closed, cycles, faults,
                   ticks, saved, cyc, said>>

\* ------------------------------------------------------------ InPosition
\* mutant: the position is not left after an exit
AfterExit_Stay == bot_state

\* lines 418 and 429
AfterExit == Idle

\* lines 409-410 and 420-421: the exit is logged and written to the ledger
ExitLogged ==
    /\ Running /\ pc = "decide" /\ bot_state.tag = "InPosition"
    /\ LET highest_price == Highest(bot_state.highest_price, loc.price)
           reason == ExitReason(loc.price, highest_price, loc.rsi)
           profit_amt == ProfitAmt(loc.price, bot_state.entry_price, bot_state.quantity)
       IN  /\ reason # "none"
           /\ data' = Logged(data, now, [text |-> reason, arg |-> loc.price])
           /\ said' = Append(said, [time |-> now, msg |-> [text |-> reason, arg |-> loc.price]])
           /\ \E ok \in BOOLEAN :
                /\ MayFail(ok)
                /\ faults' = faults + Cost(ok)
                /\ trades' = IF ok
                             THEN LogTrade(trades, "sell", loc.price, bot_state.quantity,
                                           profit_amt, now)
                             ELSE trades
                /\ loc' = [loc EXCEPT !.rows = SubSeq(trades', Len(trades) + 1, Len(trades')),
                                      !.wfail = ~ok]
    /\ pc' = "sell_publish"
    /\ wguard' = FALSE
    /\ UNCHANGED <<now, bot_state, last_prune, last_wallet, current_candle,
                   candles, sd, orders, closed, cycles,
                   ticks, saved, cyc>>

\* lines 411-416 and 422-427
ExitPublished ==
    /\ Running /\ pc = "sell_publish"
    /\ data' = PublishExit(data, ProfitAmt(loc.price, bot_state.entry_price,
                                           bot_state.quantity))
    /\ pc' = "sell_order"
    /\ wguard' = FALSE
    /\ UNCHANGED <<now, bot_state, last_prune, last_wallet, current_candle, loc,
                   candles, trades, sd, orders, closed, cycles, faults,
                   ticks, saved, cyc, said>>

\* lines 417-418 and 428-429: the order is executed, then the position is left
SellOrdered ==
    /\ Running /\ pc = "sell_order"
    /\ LET profit_amt == ProfitAmt(loc.price, bot_state.entry_price, bot_state.quantity)
       IN  /\ \E ok \in BOOLEAN :
                /\ MayFail(ok)
                /\ faults' = faults + Cost(ok)
                /\ trades' = ExecuteTrade(trades, "sell", loc.price, bot_state.quantity,
                                          ok, now)
                /\ orders' = Append(orders,
                      [by |-> "engine", side |-> "sell", price |-> loc.price,
                       qty |-> bot_state.quantity, from |-> bot_state.tag,
                       profit |-> profit_amt,
                       rows |-> loc.rows \o SubSeq(trades', Len(trades) + 1, Len(trades')),
                       wfail |-> loc.wfail \/ ~ok])
           /\ closed' = Append(closed,
                 [entry_price |-> bot_state.entry_price, exit_price |-> loc.price,
                  quantity |-> bot_state.quantity])
    /\ bot_state' = AfterExit
    /\ pc' = "sleep"
    /\ loc' = NoLoc
    /\ UNCHANGED <<now, last_prune, last_wallet, current_candle, candles, data, sd, cycles,
                   ticks, saved, cyc, wguard, said>>

\* lines 430-433
Holding ==
    /\ Running /\ pc = "decide" /\ bot_state.tag = "InPosition"
    /\ LET highest_price == Highest(bot_state.highest_price, loc.price)
       IN  /\ ExitReason(loc.price, highest_price, loc.rsi) = "none"
           /\ bot_state' = Held(bot_state, highest_price)
    /\ data' = PublishStatus(data, "HOLDING")
    /\ pc' = "sleep"
    /\ loc' = NoLoc
    /\ wguard' = FALSE
    /\ UNCHANGED <<now, last_prune, last_wallet, current_candle,
                   candles, trades, sd, orders, closed, cycles, faults,
                   ticks, saved, cyc, said>>

\* ------------------------------------------------------------ ctrl-c task
\* mutant: the emergency sell is sent whatever the snapshot shows
ShutdownRead_Always ==
    /\ sd.pc = "waiting"
    /\ ~wguard
    /\ sd' = [pc |-> "sell",
              in_pos |-> data.entry_price > 0,
              price |-> IF data.entry_price > 0 THEN data.price ELSE 0]
    /\ UNCHANGED <<now, pc, bot_state, last_prune, last_wallet, current_candle, loc,
                   candles, trades, data, orders, closed, cycles, faults,
                   ticks, saved, cyc, wguard, said>>

\* lines 567-572: the signal arrives and the snapshot is read under the read lock
ShutdownRead ==
    /\ sd.pc = "waiting"
    /\ ~wguard
    /\ sd' = [pc |-> IF data.entry_price > 0 THEN "sell" ELSE "exit",
              in_pos |-> data.entry_price > 0,
              price |-> IF data.entry_price > 0 THEN data.price ELSE 0]
    /\ UNCHANGED <<now, pc, bot_state, last_prune, last_wallet, current_candle, loc,
                   candles, trades, data, orders, closed, cycles, faults,
                   ticks, saved, cyc, wguard, said>>

\* lines 573-577: the emergency sell of 0.001
ShutdownSell ==
    /\ sd.pc = "sell"
    /\ \E ok \in BOOLEAN :
          /\ MayFail(ok)
          /\ faults' = faults + Cost(ok)
          /\ trades' = ExecuteTrade(trades, "sell", sd.price, Rat(1, 1000), ok, now)
          /\ orders' = Append(orders,
                [by |-> "shutdown", side |-> "sell", price |-> sd.price,
                 qty |-> Rat(1, 1000), from |-> "snapshot", profit |-> Zero,
                 rows |-> SubSeq(trades', Len(trades) + 1, Len(trades')),
                 wfail |-> ~ok])
    /\ sd' = [sd EXCEPT !.pc = "exit"]
    /\ UNCHANGED <<now, pc, bot_state, last_prune, last_wallet, current_candle, loc,
                   candles, data, closed, cycles,
                   ticks, saved, cyc, wguard, said>>

\* line 578: std::process::exit(0) ends every task
ShutdownExit ==
    /\ sd.pc = "exit"
    /\ sd' = [sd EXCEPT !.pc = "exited"]
    /\ UNCHANGED <<now, pc, bot_state, last_prune, last_wallet, current_candle, loc,
                   candles, trades, data, orders, closed, cycles, faults,
                   ticks, saved, cyc, wguard, said>>

\* ------------------------------------------------------------ specification
\* bot_logic alone
EngineNext ==
    \/ DbInit
    \/ HistorySynced
    \/ HistoryFailed
    \/ LoopTop
    \/ TickOk
    \/ TickMissing
    \/ Sleep
    \/ BuySignalled
    \/ BuyPublished
    \/ BuyOrdered
    \/ IdleScanned
    \/ ExitLogged
    \/ ExitPublished
    \/ SellOrdered
    \/ Holding

\* the ctrl-c task
ShutdownNext ==
    \/ ShutdownRead
    \/ ShutdownSell
    \/ ShutdownExit

Next == EngineNext \/ ShutdownNext

\* the whole process: bot_logic and the ctrl-c task side by side
Spec == Init /\ [][Next]_vars

\* bot_logic with no interrupt signal.  The ctrl-c task writes none of the
\* engine's variables but the ledger, so what holds here of the engine's own
\* variables holds in Spec too.
EngineSpec == Init /\ [][EngineNext]_vars

\* SystemTime is the wall clock of the machine and is not monotonic: while
\* bot_logic sleeps (line 440) the clock may be set back.  It is set back
\* during the first MaxBackCycle sleeps only, and not below ClockFloor.
ClockSteps == {CANDLE_MS}
ClockFloor == StartNow - CANDLE_MS
MaxBackCycle == 1

ClockSetBack ==
    /\ Running /\ pc = "sleep"
    /\ cycles <= MaxBackCycle
    /\ \E back \in ClockSteps :
          /\ now - back >= ClockFloor
          /\ now' = now - back
    /\ UNCHANGED <<pc, bot_state, last_prune, last_wallet, current_candle, loc,
                   candles, trades, data, sd, orders, closed, cycles, faults,
                   ticks, saved, cyc, wguard, said>>

\* lines 330 and 336: elapsed() answers Err when the clock is earlier than the
\* time it is asked about, and unwrap() then panics: the task of bot_logic
\* ends.  The prune of lines 331-333 has run when it is the second unwrap
\* that panics.
ElapsedPanics ==
    /\ Running /\ pc = "loop"
    /\ cycles < MaxCycles
    /\ now < last_prune \/ now < last_wallet
    /\ LET pd == now >= last_prune /\ PruneDue(now, last_prune)
       IN  /\ \E ok \in BOOLEAN :
                /\ MayFail(ok)
                /\ ~pd => ok
                /\ candles' = IF pd /\ ok THEN PruneOldData(candles, now) ELSE candles
                /\ faults' = faults + Cost(ok)
           /\ data' = IF pd
                      THEN Logged(data, now, [text |-> "Pruned old DB data", arg |-> 0])
                      ELSE data
           /\ said' = IF pd
                      THEN Append(said, [time |-> now,
                                         msg |-> [text |-> "Pruned old DB data", arg |-> 0]])
                      ELSE said
           /\ last_prune' = IF pd THEN now ELSE last_prune
    /\ pc' = "panicked"
    /\ UNCHANGED <<now, bot_state, last_wallet, current_candle, loc, trades, sd, orders,
                   closed, cycles, ticks, saved, cyc, wguard>>

ClockNext ==
    \/ EngineNext
    \/ ClockSetBack
    \/ ElapsedPanics

\* every step of bot_logic but the tick step
EngineButTick ==
    \/ DbInit
    \/ HistorySynced
    \/ HistoryFailed
    \/ LoopTop
    \/ ElapsedPanics
    \/ Sleep
    \/ BuySignalled
    \/ BuyPublished
    \/ BuyOrdered
    \/ IdleScanned
    \/ ExitLogged
    \/ ExitPublished
    \/ SellOrdered
    \/ Holding

\* bot_logic under a wall clock that may be set back.  The runtime polls the
\* task whenever it is ready, every request ends (the client has a timeout of
\* 10 s, line 304) and every sleep ends: the steps of bot_logic are weakly
\* fair.  The tick step (TickOk or TickMissing) is enabled exactly while
\* pc = "fetch" and is the only step that leaves it, so its weak fairness is
\* []<>(pc # "fetch").  Nothing is assumed of the clock.
ClockSpec ==
    Init /\ [][ClockNext]_vars /\ WF_vars(EngineButTick) /\ []<>(pc # "fetch")

\* add_log on its own: any caller, any message.  The messages are numbered;
\* the first MaxVaried of them have one of two texts.
LogTexts == {"BUY SIGNAL", "STOP LOSS"}

AddLogCall ==
    /\ Len(said) < MaxLogCalls
    /\ \E text \in (IF Len(said) < MaxVaried THEN LogTexts ELSE {"Pruned old DB data"}) :
          LET msg == [text |-> text, arg |-> Len(said) + 1]
          IN  /\ data' = Logged(data, now, msg)
              /\ said' = Append(said, [time |-> now, msg |-> msg])
    /\ wguard' = FALSE
    /\ UNCHANGED <<now, pc, bot_state, last_prune, last_wallet, current_candle, loc,
                   candles, trades, sd, orders, closed, cycles, faults,
                   ticks, saved, cyc>>

LogNext == AddLogCall

\* sequences of add_log calls long enough to fill the list and overflow it
LogSpec == Init /\ [][LogNext]_vars

\* ------------------------------------------------------------ the older engine
\* bot_logic of "main copy.rs": candles of the exchange instead of ticks, no
\* store, a fixed TRADE_AMOUNT, trades written to trades.csv by detached
\* tasks.  It is modelled on the same variables:
\*   pc, bot_state, data, loc, now, cycles, faults, closed   as above
\*   ticks    the closes fed so far to bb and rsi, which outlive the cycles
\*   orders   the records handed to writer tasks that have not run yet
\*   trades   the rows of trades.csv (the header goes with the first row)
OLD_LOG_CAP == 20
OLD_SLEEP_MS == 60000
TRADE_AMOUNT == Rat(1, 1000)

\* what GET /market_data/candles may answer: the closes, oldest first
OldFeeds == { <<>>, <<200>>, <<200, 197>>, <<201>>, <<195>>, <<230>> }

OldNoLoc == [price |-> 0, rsi |-> Zero, bb_low |-> Zero, reason |-> "none",
             profit |-> Zero]

\* main, lines 393-396, and the locals of bot_logic, lines 157-159
OldInit ==
    /\ now = StartNow
    /\ pc = "old_fetch"
    /\ bot_state = Idle
    /\ loc = OldNoLoc
    /\ data = [price |-> 0, rsi |-> Zero, bb_lower |-> Zero, status |-> "Starting...",
               entry_price |-> 0, unrealized_pl |-> Zero, realized_pl |-> Zero,
               logs |-> <<>>]
    /\ ticks = <<>>
    /\ orders = <<>>
    /\ trades = <<>>
    /\ closed = <<>>
    /\ cycles = 0
    /\ faults = 0
    /\ wguard = FALSE
    /\ last_prune = StartNow
    /\ last_wallet = StartNow
    /\ current_candle = [open |-> 0, high |-> 0, low |-> 0, close |-> 0, time |-> 0]
    /\ candles = {}
    /\ sd = [pc |-> "waiting", in_pos |-> FALSE, price |-> 0]
    /\ saved = <<>>
    /\ cyc = NoCycle
    /\ said = <<>>

\* log_async, lines 77-89, in one critical section: the line goes on top of
\* the list, the list is cut to 20, and a sell adds pl to realized_pl
LogAsync(d, action, price, comment, pl, ts) ==
    LET line == [time |-> ts, msg |-> [text |-> action, arg |-> price, comment |-> comment]]
        all == <<line>> \o d.logs
    IN  [d EXCEPT !.logs = IF Len(all) > OLD_LOG_CAP THEN SubSeq(all, 1, OLD_LOG_CAP)
                           ELSE all,
                  !.realized_pl = IF action = "sell" THEN RAdd(@, pl) ELSE @]

\* log_async, lines 92-105: what the spawned task is given
TradeRecord(action, price, comment, pl) ==
    [action |-> action, price |-> price, quantity |-> TRADE_AMOUNT,
     mode |-> IF SIMULATION_MODE THEN "SIMULATION" ELSE "REAL",
     comment |-> comment, pl |-> pl]

\* lines 176-188
OldPublishTick(d, price, rsi, bb_low) ==
    [d EXCEPT !.price = price, !.rsi = rsi, !.bb_lower = bb_low,
              !.unrealized_pl = IF d.entry_price > 0
                                THEN Rat((price - d.entry_price) * 100, d.entry_price)
                                ELSE Zero]

\* line 193
OldBuySignal(rsi, price, bb_low) ==
    \/ RLt(rsi, FromInt(RSI_BUY)) /\ RLt(FromInt(price), bb_low)
    \/ RLt(rsi, FromInt(RSI_DEEP))

\* lines 209-215 and 226
OldExitReason(price, highest_price, rsi) ==
    LET highest == IF price > highest_price THEN price ELSE highest_price
    IN  IF price * 1000 < highest * (1000 - TRAILING_STOP_PERMILLE) THEN "Trailing Stop"
        ELSE IF RLt(FromInt(RSI_SELL), rsi) THEN "RSI Overbought"
        ELSE "none"

\* line 213
OldProfitAmt(price, entry_price) == Rat(price - entry_price, 1000)

\* lines 164-188: candles arrive; bb and rsi are fed every close and the last
\* close once more; price and indicators are published
OldTick ==
    /\ pc = "old_fetch" /\ cycles < MaxCycles
    /\ \E feed \in OldFeeds \ {<<>>} :
          LET current_price == feed[Len(feed)]
              fed == ticks \o feed \o <<current_price>>
              current_rsi == RsiOf(fed)
              bb_low == BandsOf(fed).lower
          IN  /\ ticks' = fed
              /\ data' = OldPublishTick(data, current_price, current_rsi, bb_low)
              /\ loc' = [OldNoLoc EXCEPT !.price = current_price, !.rsi = current_rsi,
                                         !.bb_low = bb_low]
    /\ cycles' = cycles + 1
    /\ pc' = "old_decide"
    /\ wguard' = FALSE
    /\ UNCHANGED <<now, bot_state, last_prune, last_wallet, current_candle,
                   candles, trades, sd, orders, closed, faults, saved, cyc, said>>

\* line 166: no candle in the answer; sleep and start over
OldNoData ==
    /\ pc = "old_fetch" /\ cycles < MaxCycles
    /\ <<>> \in OldFeeds
    /\ cycles' = cycles + 1
    /\ now' = now + OLD_SLEEP_MS
    /\ UNCHANGED <<pc, bot_state, last_prune, last_wallet, current_candle, loc,
                   candles, trades, data, sd, orders, closed, faults,
                   ticks, saved, cyc, wguard, said>>

\* line 244: the request fails; only stderr is written
OldFetchFailed ==
    /\ pc = "old_fetch" /\ cycles < MaxCycles
    /\ faults < MaxFaults
    /\ faults' = faults + 1
    /\ cycles' = cycles + 1
    /\ pc' = "old_sleep"
    /\ UNCHANGED <<now, bot_state, last_prune, last_wallet, current_candle, loc,
                   candles, trades, data, sd, orders, closed,
                   ticks, saved, cyc, wguard, said>>

\* line 246
OldSleep ==
    /\ pc = "old_sleep"
    /\ now' = now + OLD_SLEEP_MS
    /\ pc' = "old_fetch"
    /\ UNCHANGED <<bot_state, last_prune, last_wallet, current_candle, loc,
                   candles, trades, data, sd, orders, closed, cycles, faults,
                   ticks, saved, cyc, wguard, said>>

\* lines 193-195: the buy condition holds; log_async
OldBuyLogged ==
    /\ pc = "old_decide" /\ bot_state.tag = "Idle"
    /\ OldBuySignal(loc.rsi, loc.price, loc.bb_low)
    /\ data' = LogAsync(data, "buy", loc.price, "RSI+BB Entry", Zero, now)
    /\ orders' = Append(orders, TradeRecord("buy", loc.price, "RSI+BB Entry", Zero))
    /\ pc' = "old_buy_publish"
    /\ wguard' = FALSE
    /\ UNCHANGED <<now, bot_state, last_prune, last_wallet, current_candle, loc,
                   candles, trades, sd, closed, cycles, faults,
                   ticks, saved, cyc, said>>

\* lines 197-203: status and entry_price in a second critical section;
\* execute_real_trade returns at once in simulation mode
OldBuyPublished ==
    /\ pc = "old_buy_publish"
    /\ data' = [data EXCEPT !.status = "IN POSITION", !.entry_price = loc.price]
    /\ bot_state' = [tag |-> "InPosition", entry_price |-> loc.price,
                     highest_price |-> loc.price]
    /\ pc' = "old_sleep"
    /\ loc' = OldNoLoc
    /\ wguard' = FALSE
    /\ UNCHANGED <<now, last_prune, last_wallet, current_candle,
                   candles, trades, sd, orders, closed, cycles, faults,
                   ticks, saved, cyc, said>>

\* line 205
OldIdleScanned ==
    /\ pc = "old_decide" /\ bot_state.tag = "Idle"
    /\ ~OldBuySignal(loc.rsi, loc.price, loc.bb_low)
    /\ data' = [data EXCEPT !.status = "IDLE (Scanning)"]
    /\ pc' = "old_sleep"
    /\ loc' = OldNoLoc
    /\ wguard' = FALSE
    /\ UNCHANGED <<now, bot_state, last_prune, last_wallet, current_candle,
                   candles, trades, sd, orders, closed, cycles, faults,
                   ticks, saved, cyc, said>>

\* lines 215-217 and 226-228: an exit; log_async adds the profit to
\* realized_pl and releases the lock
OldExitLogged ==
    /\ pc = "old_decide" /\ bot_state.tag = "InPosition"
    /\ LET reason == OldExitReason(loc.price, bot_state.highest_price, loc.rsi)
           profit_amt == OldProfitAmt(loc.price, bot_state.entry_price)
       IN  /\ reason # "none"
           /\ data' = LogAsync(data, "sell", loc.price, reason, profit_amt, now)
           /\ orders' = Append(orders, TradeRecord("sell", loc.price, reason, profit_amt))
           /\ loc' = [loc EXCEPT !.reason = reason, !.profit = profit_amt]
    /\ pc' = "old_sell_publish"
    /\ wguard' = FALSE
    /\ UNCHANGED <<now, bot_state, last_prune, last_wallet, current_candle,
                   candles, trades, sd, closed, cycles, faults,
                   ticks, saved, cyc, said>>

\* lines 219-225 and 230-236: status and entry_price in a second critical
\* section, then the position is left
OldExitPublished ==
    /\ pc = "old_sell_publish"
    /\ data' = [data EXCEPT !.status = "IDLE", !.entry_price = 0]
    /\ closed' = Append(closed, [entry_price |-> bot_state.entry_price,
                                 exit_price |-> loc.price, quantity |-> TRADE_AMOUNT])
    /\ bot_state' = Idle
    /\ pc' = "old_sleep"
    /\ loc' = OldNoLoc
    /\ wguard' = FALSE
    /\ UNCHANGED <<now, last_prune, last_wallet, current_candle,
                   candles, trades, sd, orders, cycles, faults,
                   ticks, saved, cyc, said>>

\* lines 237-240: the new high is kept in the binding of the match arm only;
\* bot_state itself is not assigned
OldHolding ==
    /\ pc = "old_decide" /\ bot_state.tag = "InPosition"
    /\ OldExitReason(loc.price, bot_state.highest_price, loc.rsi) = "none"
    /\ data' = [data EXCEPT !.status = "HOLDING"]
    /\ pc' = "old_sleep"
    /\ loc' = OldNoLoc
    /\ wguard' = FALSE
    /\ UNCHANGED <<now, bot_state, last_prune, last_wallet, current_candle,
                   candles, trades, sd, orders, closed, cycles, faults,
                   ticks, saved, cyc, said>>

\* lines 96-110: one of the spawned writer tasks runs; a file that cannot be
\* opened loses the record
OldCsvWritten ==
    /\ \E i \in 1..Len(orders) : \E ok \in BOOLEAN :
          /\ MayFail(ok)
          /\ faults' = faults + Cost(ok)
          /\ trades' = IF ok THEN Append(trades, [timestamp |-> now, rec |-> orders[i]])
                       ELSE trades
          /\ orders' = SubSeq(orders, 1, i - 1) \o SubSeq(orders, i + 1, Len(orders))
    /\ UNCHANGED <<now, pc, bot_state, last_prune, last_wallet, current_candle, loc,
                   candles, data, sd, closed, cycles,
                   ticks, saved, cyc, wguard, said>>

OldNext ==
    \/ OldTick
    \/ OldNoData
    \/ OldFetchFailed
    \/ OldSleep
    \/ OldBuyLogged
    \/ OldBuyPublished
    \/ OldIdleScanned
    \/ OldExitLogged
    \/ OldExitPublished
    \/ OldHolding
    \/ OldCsvWritten

\* the older bot_logic and its writer tasks; api_handler (lines 386-389) reads
\* the snapshot under the read lock between any two of these steps
OldSpec == OldInit /\ [][OldNext]_vars

\* ------------------------------------------------------------ properties
TagOk ==
    \/ bot_state = [tag |-> "Idle"]
    \/ /\ bot_state.tag = "InPosition"
       /\ DOMAIN bot_state = {"tag", "entry_price", "highest_price", "quantity"}

EngineOrders == SelectSeq(orders, LAMBDA o : o.by = "engine")

IsPrefix(s, t) == Len(s) <= Len(t) /\ SubSeq(t, 1, Len(s)) = s

HasLog(text) == \E i \in 1..Len(data.logs) : data.logs[i].msg.text = text

\* the stop test and the overbought test of a cycle, from the published
\* price and rsi and the position's high
StopNow == data.price * 1000 < Max(bot_state.highest_price, data.price) * 995
OverNow == RLt(FromInt(70), data.rsi)

\* C1 as stated: in every reachable state the position state is exactly one
\* of Idle and InPosition, and the snapshot's entry_price is > 0 iff the
\* position state is InPosition.
C1_EntryIffInPosition ==
    /\ TagOk
    /\ data.entry_price > 0 <=> bot_state.tag = "InPosition"

\* C1 amended: the position state is always exactly one of Idle and
\* InPosition, and the snapshot's entry_price is > 0 iff the position state
\* is InPosition in every state but those in which the order of a transition
\* is being executed; there the snapshot already shows the state the
\* position is about to take.
C1_EntryIffInPositionAtRest ==
    /\ TagOk
    /\ IF pc \in {"buy_order", "sell_order"}
       THEN data.entry_price > 0 <=> bot_state.tag = "Idle"
       ELSE data.entry_price > 0 <=> bot_state.tag = "InPosition"

C1_Witness ==
    /\ pc = "sleep" /\ bot_state.tag = "InPosition"
    /\ data.entry_price = bot_state.entry_price

\* C2: in a cycle with a tick, while Idle, the buy transition is taken iff
\* rsi < 20 or (rsi < 30 and price < band_lower); otherwise the state stays
\* Idle.  A buy, once signalled, ends with the state InPosition, and the
\* state becomes InPosition in no other way.
C2_BuyIffSignal ==
    [][ /\ (pc = "decide" /\ bot_state.tag = "Idle" /\ pc' # pc) =>
              IF \/ RLt(data.rsi, FromInt(20))
                 \/ RLt(data.rsi, FromInt(30)) /\ RLt(FromInt(data.price), data.bb_lower)
              THEN pc' = "buy_publish"
              ELSE pc' = "sleep" /\ bot_state'.tag = "Idle"
        /\ (pc = "buy_publish" /\ pc' # pc) => pc' = "buy_order"
        /\ (pc = "buy_order" /\ pc' # pc) => bot_state'.tag = "InPosition"
        /\ (bot_state.tag = "Idle" /\ bot_state'.tag = "InPosition") => pc = "buy_order"
      ]_vars

\* a buy through the band: 20 <= rsi < 30 and price < band_lower
C2_Witness ==
    /\ pc = "buy_publish"
    /\ ~RLt(data.rsi, FromInt(20))
    /\ RLt(data.rsi, FromInt(30))
    /\ RLt(FromInt(data.price), data.bb_lower)

\* C3: in a cycle with a tick, while InPosition, with the high raised to
\* max(high, price), the exit is taken iff price < high * (1 - 0.005) or
\* rsi > 70; otherwise the state stays InPosition.  With high 110 a price of
\* 109.4 is below the stop and 109.46 is not (in cents).
C3_ExitIffStopOrOverbought ==
    /\ StopHit(10940, 11000) /\ ~StopHit(10946, 11000)
    /\ [][ /\ (pc = "decide" /\ bot_state.tag = "InPosition" /\ pc' # pc) =>
                 IF StopNow \/ OverNow
                 THEN pc' = "sell_publish"
                 ELSE pc' = "sleep" /\ bot_state'.tag = "InPosition"
           /\ (pc = "sell_publish" /\ pc' # pc) => pc' = "sell_order"
           /\ (pc = "sell_order" /\ pc' # pc) => bot_state'.tag = "Idle"
           /\ (bot_state.tag = "InPosition" /\ bot_state'.tag = "Idle") => pc = "sell_order"
         ]_vars

\* an exit on rsi > 70 alone
C3_Witness ==
    /\ pc = "sell_publish" /\ bot_state.tag = "InPosition"
    /\ ~StopNow /\ OverNow

\* C4: when the stop is breached the exit is logged STOP LOSS, also when rsi
\* > 70 holds too; an exit logged PROFIT TAKE has price >= stop price.
C4_StopBeforeProfit ==
    [][ (pc = "decide" /\ pc' = "sell_publish") =>
           /\ Len(data'.logs) > 0
           /\ Head(data'.logs).msg.text \in {"STOP LOSS", "PROFIT TAKE"}
           /\ StopNow => Head(data'.logs).msg.text = "STOP LOSS"
           /\ Head(data'.logs).msg.text = "PROFIT TAKE" => ~StopNow /\ OverNow
      ]_vars

\* both exit conditions in one cycle
C4_Witness ==
    /\ pc = "sell_publish" /\ bot_state.tag = "InPosition"
    /\ StopNow /\ OverNow
    /\ Head(data.logs).msg.text = "STOP LOSS"

\* C5: while the state stays InPosition the high never decreases and is
\* never below entry_price; after a cycle that stays InPosition it is >= the
\* price of that cycle; a new entry starts it at the entry price.
C5_HighestMonotone ==
    [][ /\ (bot_state.tag = "InPosition" /\ bot_state'.tag = "InPosition") =>
              bot_state'.highest_price >= bot_state.highest_price
        /\ bot_state'.tag = "InPosition" =>
              bot_state'.highest_price >= bot_state'.entry_price
        /\ (pc = "decide" /\ bot_state.tag = "InPosition" /\ pc' = "sleep") =>
              /\ bot_state'.tag = "InPosition"
              /\ bot_state'.highest_price >= data.price
        /\ (bot_state.tag = "Idle" /\ bot_state'.tag = "InPosition") =>
              bot_state'.highest_price = bot_state'.entry_price
      ]_vars

\* held below the high
C5_Witness ==
    /\ pc = "sleep" /\ bot_state.tag = "InPosition" /\ data.status = "HOLDING"
    /\ bot_state.highest_price > bot_state.entry_price
    /\ data.price < bot_state.highest_price

\* C6: on every Idle -> InPosition transition entry_price = high = the price
\* of the tick, quantity = fixed_capital / price, and the snapshot's
\* entry_price is that price.
C6_EntryValues ==
    [][ (bot_state.tag = "Idle" /\ bot_state'.tag = "InPosition") =>
           /\ bot_state'.entry_price = data.price
           /\ bot_state'.highest_price = data.price
           /\ bot_state'.quantity.num * data.price = TRADE_CAPITAL * bot_state'.quantity.den
           /\ data'.entry_price = data.price
      ]_vars

C6_Witness ==
    /\ pc = "sleep" /\ bot_state.tag = "InPosition" /\ data.status = "IN POSITION"
    /\ bot_state.entry_price = data.price
    /\ bot_state.quantity = Rat(TRADE_CAPITAL, data.price)

\* C7: the orders of the main loop alternate, starting with a buy; a buy is
\* submitted only from Idle, a sell only from InPosition, and a position is
\* open exactly when the last order was a buy.
C7_OrdersAlternate ==
    /\ \A i \in 1..Len(EngineOrders) :
          /\ EngineOrders[i].side = (IF i % 2 = 1 THEN "buy" ELSE "sell")
          /\ EngineOrders[i].from = (IF i % 2 = 1 THEN "Idle" ELSE "InPosition")
    /\ bot_state.tag = "InPosition" <=> Len(EngineOrders) % 2 = 1

\* buy, sell, buy
C7_Witness == Len(EngineOrders) = 3 /\ bot_state.tag = "InPosition"

\* C8: every executed buy and every executed sell of the main loop appends
\* exactly one row to the ledger: a buy row with profit 0, a sell row with
\* the realized profit.  Stated for the decisions all of whose ledger writes
\* succeeded, where a missing row cannot be laid to the store.
C8_OneRowPerDecision ==
    \A i \in 1..Len(orders) :
        (orders[i].by = "engine" /\ ~orders[i].wfail) =>
            /\ Len(orders[i].rows) = 1
            /\ orders[i].rows[1].action = orders[i].side
            /\ orders[i].rows[1].profit = orders[i].profit

\* C9 as stated: no operation deletes or changes a ledger row.
C9_AppendOnly == [][IsPrefix(trades, trades')]_vars

\* C9 amended: the store initialisation of start-up leaves the ledger as it
\* is or empties it; after it no operation deletes or changes a ledger row.
C9_AppendOnlyAfterInit ==
    [][ IF pc = "init"
        THEN trades' = trades \/ trades' = <<>>
        ELSE IsPrefix(trades, trades')
      ]_vars

\* rows in the ledger, a prune done and the emergency sell written after them
C9_Witness ==
    /\ HasLog("Pruned old DB data")
    /\ Len(trades) >= 2
    /\ \E i \in 1..Len(orders) : orders[i].by = "shutdown" /\ Len(orders[i].rows) = 1

\* C10: the profit of an exit is (exit price - entry_price) * quantity, and
\* realized_pl is the sum of the profits of the closed positions, the one
\* being closed included once its exit is published.
PositionProfit(c) ==
    Rat((c.exit_price - c.entry_price) * c.quantity.num, c.quantity.den)

C11_UnrealizedFollowsPosition ==
    /\ (bot_state.tag = "Idle" /\ data.entry_price = 0) => data.unrealized_pl = Zero
    /\ (bot_state.tag = "InPosition" /\ data.entry_price > 0) =>
          data.unrealized_pl.num * data.entry_price =
             (data.price - data.entry_price) * 100 * data.unrealized_pl.den

\* the prices aggregated so far whose time falls in the current candle's bucket
TicksOfCandle ==
    SelectSeq(ticks, LAMBDA t : (t.at \div 60000) * 60000 = current_candle.time)

\* C12: for the ticks that fall in the bucket of the current candle, low <=
\* every observed price <= high, low <= open <= high, open is the first
\* observed price and close the last.
C12_CandleBoundsTicks ==
    LET mine == TicksOfCandle
    IN  mine # <<>> =>
           /\ \A i \in 1..Len(mine) :
                 /\ current_candle.low <= mine[i].price
                 /\ mine[i].price <= current_candle.high
           /\ current_candle.low <= current_candle.open
           /\ current_candle.open <= current_candle.high
           /\ current_candle.open = mine[1].price
           /\ current_candle.close = mine[Len(mine)].price

\* three ticks in one bucket: the open strictly between the low and the high
C12_Witness ==
    /\ Len(TicksOfCandle) >= 3
    /\ current_candle.low < current_candle.open
    /\ current_candle.open < current_candle.high
    /\ current_candle.close # current_candle.open

\* C13: for every tick, bucket = floor(now / 60000) * 60000; if it differs
\* from the current candle's bucket_start (0 before the first tick) a new
\* candle is started with bucket_start = bucket and open = high = low = close
\* = price; if it is equal, bucket_start and open are unchanged.
C13_BucketStartsCandle ==
    [][ (pc = "fetch" /\ pc' = "decide") =>
           LET bucket == (now \div 60000) * 60000
               price == data'.price
           IN  IF bucket # current_candle.time
               THEN current_candle' = [time |-> bucket, open |-> price, high |-> price,
                                       low |-> price, close |-> price]
               ELSE /\ current_candle'.time = current_candle.time
                    /\ current_candle'.open = current_candle.open
      ]_vars

\* the first tick of the run started a candle and the second, at another
\* price, fell in the same bucket
C13_Witness ==
    /\ pc = "decide" /\ Len(ticks) = 2
    /\ (ticks[1].at \div 60000) * 60000 = current_candle.time
    /\ (ticks[2].at \div 60000) * 60000 = current_candle.time
    /\ ticks[2].at > ticks[1].at
    /\ ticks[2].price # ticks[1].price
    /\ current_candle.open = ticks[1].price

\* C14: the candle store holds at most one row per bucket_start; the row of
\* a bucket holds the values of the last save_candle for it that succeeded
\* (and is there unless it has grown older than the prune age); saving the
\* same candle twice leaves the store as after saving it once.
C14_UpsertOneRowPerBucket ==
    /\ \A r1, r2 \in candles : r1.time = r2.time => r1 = r2
    /\ \A t \in DOMAIN saved :
          /\ \A r \in candles : r.time = t => r = saved[t]
          /\ ~(t < now - PRUNE_AGE_MS) => \E r \in candles : r.time = t
    /\ \A p \in Prices :
          LET c == Flat(current_candle.time, p)
              once == SaveCandle(candles, c, data.rsi, data.bb_lower, data.bb_upper)
          IN  /\ SaveCandle(once, c, data.rsi, data.bb_lower, data.bb_upper) = once
              /\ Cardinality({r \in once : r.time = c.time}) = 1
              /\ \A r \in once : r.time = c.time => r.close = p /\ r.rsi = data.rsi

\* the bucket of the current candle has been saved for two ticks at different
\* prices, and other buckets have rows too
C14_Witness ==
    /\ pc = "decide" /\ Len(TicksOfCandle) >= 2
    /\ TicksOfCandle[1].price # current_candle.close
    /\ Cardinality(candles) >= 2
    /\ \E r \in candles :
          /\ r.time = current_candle.time
          /\ r.close = current_candle.close
          /\ r.rsi = data.rsi /\ RPos(r.rsi)

\* C15: get_recent_candles(n) returns min(n, number of stored candles)
\* candles, they are stored candles, the ones with the largest bucket_start,
\* and they are in strictly increasing order of bucket_start.  Checked on
\* every store the program reaches, for every n up to one more than its
\* size and for the n the engine passes.
C15_RecentCandles ==
    \A n \in (0..(Cardinality(candles) + 1)) \cup {50} :
        LET r == GetRecentCandles(candles, n)
        IN  /\ Len(r) = (IF n < Cardinality(candles) THEN n ELSE Cardinality(candles))
            /\ \A i \in 1..Len(r) : \E row \in candles :
                  /\ row.time = r[i].time /\ row.open = r[i].open
                  /\ row.high = r[i].high /\ row.low = r[i].low
                  /\ row.close = r[i].close
            /\ \A i \in 1..(Len(r) - 1) : r[i].time < r[i + 1].time
            /\ \A row \in candles :
                  (\A i \in 1..Len(r) : r[i].time # row.time) =>
                      \A i \in 1..Len(r) : row.time < r[i].time

\* a read of the window with three candles stored, of which a limit of two
\* leaves the oldest out
C15_Witness ==
    /\ pc = "decide" /\ Cardinality(candles) >= 3
    /\ Len(GetRecentCandles(candles, 2)) = 2
    /\ \E row \in candles : row.time < GetRecentCandles(candles, 2)[1].time

\* C16: a prune at time now removes exactly the candles with bucket_start <
\* now - 3600000, keeps every other candle unchanged and leaves the ledger
\* unchanged.  The first conjunct is the boundary: of three candles one
\* minute before, at and one minute after the threshold the first goes.
C16_PruneRemovesOld ==
    /\ LET at == 10 * 3600000
           row(t) == CandleRow(Flat(t, 200), FromInt(50), FromInt(199), FromInt(201))
       IN  PruneOldData({row(at - 3600000 - 60000), row(at - 3600000),
                         row(at - 3600000 + 60000)}, at)
              = {row(at - 3600000), row(at - 3600000 + 60000)}
    /\ [][ (pc = "loop" /\ pc' = "fetch" /\ now - last_prune > 300000 /\ faults' = faults) =>
               /\ candles' = {r \in candles : r.time >= now - 3600000}
               /\ trades' = trades
         ]_vars

\* a prune has just removed a candle and kept another, with a row in the ledger
C16_Witness ==
    /\ pc = "fetch" /\ cyc.pruned
    /\ \E t \in cyc.top :
          /\ candles # t.candles /\ candles # {}
          /\ candles \subseteq t.candles
          /\ trades = t.trades /\ trades # <<>>

\* what C17 lists, but for the candle store, is as the iteration found it
SkippedFrame(t) ==
    /\ current_candle = t.current_candle
    /\ trades = t.trades
    /\ bot_state = t.bot_state
    /\ data.price = t.data.price /\ data.rsi = t.data.rsi
    /\ data.bb_lower = t.data.bb_lower /\ data.bb_upper = t.data.bb_upper
    /\ data.status = t.data.status /\ data.entry_price = t.data.entry_price
    /\ data.unrealized_pl = t.data.unrealized_pl
    /\ data.realized_pl = t.data.realized_pl
    /\ Len(orders) = t.orders

\* C17 as stated: in a loop iteration whose tick fetch returns an error or
\* no data, the current candle, the candle store rows, the ledger, the
\* position state and the snapshot's price, rsi, bands, status, entry_price,
\* unrealized_pl and realized_pl are as the iteration found them, and no
\* order is submitted.
C17_SkippedCycleChangesNothing ==
    cyc.skipped =>
        /\ cyc.top # {}
        /\ \A t \in cyc.top : SkippedFrame(t) /\ candles = t.candles

\* C17 amended: as stated, except that the candle store loses the rows older
\* than one hour when the periodic prune is due at the head of the iteration
\* (and works); its other rows are unchanged.
C17_SkippedCycleOnlyPrunes ==
    cyc.skipped =>
        /\ cyc.top # {}
        /\ \A t \in cyc.top :
              /\ SkippedFrame(t)
              /\ IF cyc.pruned
                 THEN \/ candles = t.candles
                      \/ candles = {r \in t.candles : r.time >= now - 3600000}
                 ELSE candles = t.candles

\* a skipped iteration, after two with a price, whose prune removed a candle
C17_Witness ==
    /\ pc = "sleep" /\ cyc.skipped /\ cyc.pruned
    /\ Len(ticks) = 2 /\ data.price = ticks[2].price
    /\ \E t \in cyc.top : candles # t.candles /\ candles # {}

\* the transition the cycle at its decision is about to take
TransitionNow == Transition(bot_state, loc.price, loc.rsi, loc.bb_low)

\* C18: when a save_candle of a cycle with a price fails (its read
\* succeeding), the cycle has still updated the in-memory candle and
\* published the snapshot, and the transition it takes is the one it would
\* take had the write succeeded.
C18_WriteFailureSameStep ==
    (pc = "decide" /\ (loc.sfail \/ loc.ufail) /\ ~loc.rfail) =>
        /\ current_candle.close = loc.price
        /\ current_candle.time = (now \div 60000) * 60000
        /\ data.price = loc.price /\ data.rsi = loc.rsi
        /\ TransitionNow = loc.want

\* C19: the transition a cycle takes is the one it would take had all its
\* store calls, the read of the window included, succeeded.
C19_DecisionIgnoresStore ==
    pc = "decide" => TransitionNow = loc.want

\* the lines the engine logs when nothing has failed
RoutineTexts ==
    {"Synced candles to DB", "Pruned old DB data", "BUY SIGNAL", "STOP LOSS", "PROFIT TAKE"}

\* C20: every error in the engine (a failed tick or history fetch, a failed
\* store write or read, a failed order) appends a line to the snapshot's log
\* ring: the step in which a call fails puts a new line, other than the
\* routine ones, at the head of the ring.
C20_ErrorsAreLogged ==
    [][ faults' > faults =>
           /\ Len(data'.logs) > Len(data.logs)
           /\ Head(data'.logs).msg.text \notin RoutineTexts
      ]_vars

\* C21: when the order of a buy or of a sell fails, the transition of the
\* cycle is committed all the same: after a failed buy the state is
\* InPosition with entry_price = price, after a failed sell the state is Idle
\* and realized_pl includes the profit of the exit.
C21_FailedOrderStillCommits ==
    [][ /\ (pc = "buy_order" /\ pc' # pc /\ faults' > faults) =>
              /\ bot_state'.tag = "InPosition"
              /\ bot_state'.entry_price = data.price
              /\ data'.entry_price = data.price
        /\ (pc = "sell_order" /\ pc' # pc /\ faults' > faults) =>
              /\ bot_state' = [tag |-> "Idle"]
              /\ data'.entry_price = 0
              /\ data'.realized_pl =
                    RSumSeq([i \in 1..Len(closed') |-> PositionProfit(closed'[i])])
              /\ closed'[Len(closed')].exit_price = data.price
      ]_vars

\* a position opened by a buy whose order failed
C21_Witness ==
    /\ pc = "sleep" /\ bot_state.tag = "InPosition"
    /\ orders # <<>>
    /\ orders[Len(orders)].side = "buy" /\ orders[Len(orders)].wfail
    /\ orders[Len(orders)].rows = <<>>
    /\ bot_state.entry_price = orders[Len(orders)].price

\* C22: the rsi and the bands used and published in a cycle are a function
\* of the closes of the window read in that cycle alone: two cycles that read
\* the same window have the same values, whatever the cycles before them
\* computed.
C22_IndicatorsFromWindow ==
    /\ \A i, j \in 1..Len(ticks) :
          ticks[i].closes = ticks[j].closes =>
              /\ ticks[i].rsi = ticks[j].rsi
              /\ ticks[i].bb_lower = ticks[j].bb_lower
              /\ ticks[i].bb_upper = ticks[j].bb_upper
    /\ pc = "decide" =>
          LET last == ticks[Len(ticks)]
          IN  /\ loc.rsi = last.rsi /\ loc.bb_low = last.bb_lower
              /\ data.rsi = last.rsi /\ data.bb_lower = last.bb_lower
              /\ data.bb_upper = last.bb_upper

\* the first and the third cycle read the same window of two closes or more,
\* the second another one
C22_Witness ==
    /\ Len(ticks) = 3
    /\ Len(ticks[1].closes) >= 2
    /\ ticks[1].closes = ticks[3].closes
    /\ ticks[2].closes # ticks[1].closes
    /\ ticks[2].rsi # ticks[1].rsi
    /\ ticks[3].rsi = ticks[1].rsi

\* C23: a reader of the snapshot, which sees it between two critical sections
\* of the engine, never finds the price of one cycle with the rsi or a band
\* of another: the four are those of the last cycle that had a price, or
\* the initial zeros.
C23_TickFieldsTogether ==
    IF ticks = <<>>
    THEN /\ data.price = 0 /\ data.rsi = Zero
         /\ data.bb_lower = Zero /\ data.bb_upper = Zero
    ELSE LET last == ticks[Len(ticks)]
         IN  /\ data.price = last.price /\ data.rsi = last.rsi
             /\ data.bb_lower = last.bb_lower /\ data.bb_upper = last.bb_upper

\* the ctrl-c task has read the snapshot after the second cycle with a price,
\* whose price and rsi differ from those of the first
C23_Witness ==
    /\ sd.pc = "sell" /\ Len(ticks) = 2
    /\ sd.price = ticks[2].price
    /\ ticks[2].price # ticks[1].price /\ ticks[2].rsi # ticks[1].rsi

\* C24: the status and position fields change together: no reader finds the
\* status IN POSITION or HOLDING with entry_price = 0, a status containing
\* IDLE with entry_price > 0, or entry_price reset to 0 by an exit while
\* realized_pl lacks the profit of that exit.
C24_StatusFieldsTogether ==
    /\ data.status \in {"IN POSITION", "HOLDING"} => data.entry_price > 0
    /\ data.status \in {"IDLE", "IDLE (Scanning)"} => data.entry_price = 0
    /\ data.status \in {"Starting...", "IN POSITION", "HOLDING", "IDLE", "IDLE (Scanning)"}
    /\ (pc = "sell_order" /\ data.entry_price = 0) =>
          data.realized_pl =
             RAdd(RSumSeq([i \in 1..Len(closed) |-> PositionProfit(closed[i])]),
                  ProfitAmt(data.price, bot_state.entry_price, bot_state.quantity))
    /\ (pc # "sell_order" /\ pc # "sell_publish") =>
          /\ data.realized_pl = RSumSeq([i \in 1..Len(closed) |-> PositionProfit(closed[i])])
          /\ data.entry_price = 0 => Len(closed) * 2 = Len(EngineOrders)

\* the ctrl-c task reads the snapshot just after an exit was published: the
\* status is IDLE, entry_price is 0 and the profit is booked
C24_Witness ==
    /\ pc = "sell_order" /\ sd.pc = "exit" /\ ~sd.in_pos
    /\ data.status = "IDLE" /\ data.entry_price = 0
    /\ data.realized_pl # Zero

\* where bot_logic is suspended in an await: the history fetch, the tick
\* fetch, the order submission, the sleep
Suspended == pc \in {"history", "fetch", "buy_order", "sell_order", "sleep"}

\* C25: the engine holds no write guard of the snapshot while it is
\* suspended in a fetch, an order submission or the sleep, so a reader can
\* take the read lock then: the ctrl-c task, if still waiting, can read.
C25_NoGuardWhileSuspended ==
    Suspended =>
        /\ ~wguard
        /\ sd.pc = "waiting" => ENABLED ShutdownRead

\* the ctrl-c task has read the snapshot while the buy order was in flight
C25_Witness ==
    /\ pc = "buy_order" /\ bot_state.tag = "Idle"
    /\ sd.pc = "sell" /\ sd.in_pos /\ sd.price = data.entry_price

\* C26: bot_logic is the only writer of the position state, of the store
\* (candles and ledger) and of the snapshot: no step of the ctrl-c task
\* changes any of them.
C26_EngineSoleWriter ==
    [][ sd' # sd =>
           /\ bot_state' = bot_state
           /\ candles' = candles /\ trades' = trades
           /\ data' = data
      ]_vars

ShutdownOrders == SelectSeq(orders, LAMBDA o : o.by = "shutdown")

\* C27: on the interrupt signal the ctrl-c task reads the snapshot once; if
\* it shows entry_price > 0 the task submits exactly one sell order, at the
\* price it read, and only then ends the process; otherwise it ends the
\* process without any order.  Nothing happens once the process has ended.
C27_ShutdownSellsOnce ==
    /\ [](/\ sd.pc \in {"waiting", "sell", "exit", "exited"}
          /\ sd.pc = "sell" => sd.in_pos
          /\ sd.pc \in {"waiting", "sell"} => ShutdownOrders = <<>>
          /\ sd.pc \in {"exit", "exited"} =>
                /\ Len(ShutdownOrders) = (IF sd.in_pos THEN 1 ELSE 0)
                /\ \A i \in 1..Len(ShutdownOrders) :
                      /\ ShutdownOrders[i].side = "sell"
                      /\ ShutdownOrders[i].price = sd.price)
    /\ [][ /\ (sd.pc = "waiting" /\ sd' # sd) =>
                 /\ sd'.in_pos = (data.entry_price > 0)
                 /\ sd'.in_pos => sd'.price = data.price
                 /\ sd'.pc = (IF data.entry_price > 0 THEN "sell" ELSE "exit")
           /\ sd.pc # "waiting" => (sd'.in_pos = sd.in_pos /\ sd'.price = sd.price)
           /\ (sd'.pc = "exited" /\ sd.pc # "exited") => sd.pc = "exit"
           /\ sd.pc # "exited"
          ]_vars

\* the process has ended after one emergency sell at the price read
C27_Witness ==
    /\ sd.pc = "exited" /\ sd.in_pos
    /\ Len(ShutdownOrders) = 1
    /\ ShutdownOrders[1].price = sd.price /\ sd.price > 0

\* C28: after any sequence of add_log calls the log list holds at most 30
\* lines, most recent first: exactly the most recent min(30, number of
\* calls) messages.
C28_LogRing ==
    LET n == Len(said)
        k == IF n < 30 THEN n ELSE 30
    IN  /\ Len(data.logs) <= 30
        /\ Len(data.logs) = k
        /\ \A i \in 1..k : data.logs[i] = said[n + 1 - i]

\* 32 calls: the list is full and the two oldest messages are gone
C28_Witness ==
    /\ Len(said) = 32 /\ Len(data.logs) = 30
    /\ data.logs[1] = said[32] /\ data.logs[30] = said[3]
    /\ said[3].msg.text # said[4].msg.text

\* C29: in a cycle with a price the candle is aggregated, then persisted,
\* then the indicators are recomputed from the stored window, then the
\* state-machine step runs, and only then is the snapshot published: when
\* the cycle reaches its decision the candle holds the price, the store holds
\* the candle, and the snapshot is still the one of the cycle before.
C29_PublishAfterStep ==
    [][ (pc = "fetch" /\ pc' = "decide") =>
           /\ current_candle'.close = loc'.price
           /\ (~loc'.sfail /\ ~loc'.ufail) =>
                 \E r \in candles' : r.time = current_candle'.time /\ r.close = loc'.price
           /\ data'.price = data.price /\ data'.rsi = data.rsi
           /\ data'.bb_lower = data.bb_lower /\ data'.bb_upper = data.bb_upper
           /\ data'.unrealized_pl = data.unrealized_pl
      ]_vars

\* C30: the prune runs in an iteration exactly when more than 300 s have
\* passed since the last one (or since start-up), the balance refresh exactly
\* when more than 60 s have passed since the last one; both tests are made
\* at the head of every iteration, before the tick fetch, and nowhere else.
C30_TimedActivities ==
    [][ /\ (pc = "loop" /\ pc' # pc) =>
              /\ pc' = "fetch"
              /\ IF now - last_prune > 300000
                 THEN /\ Len(data'.logs) = Len(data.logs) + 1
                      /\ Head(data'.logs).msg.text = "Pruned old DB data"
                      /\ last_prune' = now
                 ELSE /\ data'.logs = data.logs
                      /\ last_prune' = last_prune
                      /\ candles' = candles
              /\ IF now - last_wallet > 60000
                 THEN /\ data'.wallet_usdt = 10500
                      /\ last_wallet' = now
                 ELSE /\ data'.wallet_usdt = data.wallet_usdt
                      /\ data'.wallet_btc = data.wallet_btc
                      /\ last_wallet' = last_wallet
        /\ (pc' = "fetch" /\ pc # "fetch") => pc = "loop"
        /\ pc \notin {"loop", "history"} =>
              /\ last_prune' = last_prune /\ last_wallet' = last_wallet
              /\ data'.wallet_usdt = data.wallet_usdt
      ]_vars

\* an iteration that pruned and refreshed the balance and then got no price
C30_Witness ==
    /\ pc = "sleep" /\ cyc.skipped /\ cyc.pruned
    /\ Head(data.logs).msg.text = "Pruned old DB data"
    /\ last_prune = now /\ last_wallet = now
    /\ data.wallet_usdt = 10500

\* C31: the clock never goes back, and the saves of a cycle write only the row
\* of the bucket of that cycle's tick: every row of another bucket, and so
\* the row of every earlier bucket once a tick of a later bucket has been
\* observed, is in the store after the cycle exactly as before it.
C31_SavesOnlyCurrentBucket ==
    [][ /\ now' >= now
        /\ (pc = "fetch" /\ pc' = "decide") =>
              LET bucket == (now \div 60000) * 60000
              IN  /\ \A i \in 1..Len(ticks) : ticks[i].at <= now
                  /\ \A r \in candles : r.time # bucket => r \in candles'
                  /\ \A r \in candles' : r.time # bucket => r \in candles
                  /\ \A t \in DOMAIN saved : t # bucket => saved'[t] = saved[t]
      ]_vars

\* the second tick fell in a later bucket than the first and at another
\* price; the row of the first bucket still holds the first tick's values
C31_Witness ==
    /\ pc = "decide" /\ Len(ticks) = 2
    /\ (ticks[1].at \div 60000) * 60000 < (ticks[2].at \div 60000) * 60000
    /\ ticks[2].price # ticks[1].price
    /\ \E r \in candles :
          /\ r.time = (ticks[1].at \div 60000) * 60000
          /\ r.close = ticks[1].price /\ r.rsi = ticks[1].rsi
    /\ \E r \in candles :
          /\ r.time = (ticks[2].at \div 60000) * 60000
          /\ r.close = ticks[2].price

\* C32: the engine loop has no terminal state: every cycle begun reaches the
\* sleep of line 440 whatever its calls answer, and from every sleep (short of
\* the MaxCycles iterations explored) another cycle begins.
C32_LoopNeverEnds ==
    /\ (pc = "fetch") ~> (pc = "sleep")
    /\ (pc = "sleep" /\ cycles < MaxCycles) ~> (pc = "fetch")

\* the execute_trade calls made so far for one side, by either task
Submitted(side) == Cardinality({i \in 1..Len(orders) : orders[i].side = side})

\* C33: counting the orders of the main loop and of the shutdown handler
\* together, the sell orders submitted never outnumber the buy orders
\* submitted: no sell comes before the buy of its position and no position
\* is sold twice.
C33_SellsNeverExceedBuys ==
    Submitted("sell") <= Submitted("buy")

\* the buy orders submitted before order i
BuysBefore(i) == {j \in 1..(i - 1) : orders[j].side = "buy"}

\* C34: every sell order closes the whole open position: its quantity is the
\* quantity of the buy that opened the position, whichever task submits it.
C34_SellClosesWholePosition ==
    \A i \in 1..Len(orders) :
        (orders[i].side = "sell" /\ BuysBefore(i) # {}) =>
            LET entry == CHOOSE j \in BuysBefore(i) : \A k \in BuysBefore(i) : k <= j
            IN  orders[i].qty = orders[entry].qty

\* C35: for the lifetime of a position entry_price and quantity stay as the
\* buy fixed them; a cycle that stays InPosition changes highest_price only,
\* appends no ledger row, submits no order and leaves realized_pl and the
\* snapshot's entry_price as they were.
C35_PositionFixedWhileHeld ==
    [][ /\ (bot_state.tag = "InPosition" /\ bot_state'.tag = "InPosition") =>
              /\ bot_state'.entry_price = bot_state.entry_price
              /\ bot_state'.quantity = bot_state.quantity
        /\ (bot_state.tag = "InPosition" /\ pc \in {"sleep", "loop", "fetch"}) =>
              /\ bot_state' = bot_state
              /\ trades' = trades /\ orders' = orders
              /\ data'.realized_pl = data.realized_pl
              /\ data'.entry_price = data.entry_price
        /\ (bot_state.tag = "InPosition" /\ pc = "decide" /\ pc' = "sleep") =>
              /\ bot_state' = [bot_state EXCEPT !.highest_price = bot_state'.highest_price]
              /\ trades' = trades /\ orders' = orders
              /\ data'.realized_pl = data.realized_pl
              /\ data'.entry_price = data.entry_price
              /\ data'.entry_price = bot_state'.entry_price
      ]_vars

\* one order so far, the buy; the cycle after it held at a new high
C35_Witness ==
    /\ pc = "sleep" /\ bot_state.tag = "InPosition" /\ data.status = "HOLDING"
    /\ Len(orders) = 1 /\ orders[1].side = "buy"
    /\ bot_state.entry_price = orders[1].price /\ bot_state.quantity = orders[1].qty
    /\ bot_state.highest_price > bot_state.entry_price
    /\ data.price = bot_state.highest_price
    /\ data.entry_price = bot_state.entry_price

\* C36: a buy transition is taken only in a cycle whose indicators were
\* computed from a non-empty window: with no candles read (an empty answer
\* or a failed read, rsi and bands at 0) the Idle state does not buy.
C36_NoBuyOnEmptyWindow ==
    [][ (pc = "decide" /\ pc' = "buy_publish") =>
           ticks[Len(ticks)].closes # <<>>
      ]_vars

\* C37: in the older engine a reader never sees realized_pl already raised
\* by an exit's profit while the snapshot still shows the position as open:
\* whatever step raises realized_pl also resets status and entry_price.
C37_OldExitSeenTogether ==
    [][ (RLt(data.realized_pl, data'.realized_pl) /\ ~wguard') =>
           (data'.entry_price = 0 /\ data'.status = "IDLE")
      ]_vars

====
